---------------------------- MODULE Spec2Model ----------------------------
(***************************************************************************)
(* Model of the Panasonic CONT codec of panasonicMeta.py: the encoder      *)
(* buildMetadata (parameter preparation, sidecar files, field assembler),  *)
(* the decoder printCont (header detection, fixed block, tagged-record     *)
(* scan) and the helpers of reveng.py they call.                           *)
(*                                                                         *)
(* Bytes are integers 0..255, words integers 0..65535.  Python indices are *)
(* 0-based; TLA+ sequences are 1-based, so word index j of the source is   *)
(* element j+1 of a sequence here (operators W and Slice hide the shift).  *)
(* Integers wider than 31 bits (file sizes, bitrates, FILETIMEs) are kept  *)
(* as little-endian byte sequences ("BigNat") because TLC integers are     *)
(* 32-bit.  Text is a sequence of character codes.                         *)
(*                                                                         *)
(* A local value of the source that is used more than once is passed as an *)
(* argument to a helper operator (named after the step it finishes), so    *)
(* that it is evaluated once.                                              *)
(***************************************************************************)
EXTENDS Integers, Sequences, FiniteSets, TLC

\* ------------------------------------------------------------------ bounds
\* Longest stem (name without extension) of a source file name.
MaxStem == 2
\* Longest content and greatest declared length (in characters / bytes) of
\* the field descriptors the assembler specification draws.
MaxField == 4
\* The FILETIME specification converts the Unix times j * TimeStride for
\* j in 0..MaxTimeStep (all below 2^31).
MaxTimeStep == 62
TimeStride == 33554393

\* ----------------------------------------------------------- basic helpers
Zeros(count) == [j \in 1..count |-> 0]

Min(a, b) == IF a < b THEN a ELSE b
Max(a, b) == IF a > b THEN a ELSE b

\* F(x) with x evaluated before F is applied to it: the steps of a
\* computation are then evaluated one after the other, as the program runs
\* them, instead of nested inside each other
Strict(x, F(_)) == CHOOSE r \in { F(v) : v \in { x } } : TRUE

SetMin(S) == CHOOSE a \in S : \A b \in S : a <= b
SetMax(S) == CHOOSE a \in S : \A b \in S : a >= b

\* ------------------------------------------------------------------ BigNat
\* Little-endian byte sequences standing for Python's unbounded integers.
ByteAt(b, j) == IF j <= Len(b) THEN b[j] ELSE 0

\* b without its leading (most significant) zero bytes
BigNorm(b) == SubSeq(b, 1, SetMax({ 0 } \cup { j \in 1..Len(b) : b[j] # 0 }))

\* v as a BigNat, for 0 <= v < 2^31
BigOfInt(v) ==
    BigNorm(<< v % 256, (v \div 256) % 256, (v \div 65536) % 256, v \div 16777216 >>)

\* b + c: the carry out of byte j, and the sum byte by byte
RECURSIVE BigAddC(_, _, _)
BigAddC(b, c, j) ==
    IF j = 0 THEN 0 ELSE (ByteAt(b, j) + ByteAt(c, j) + BigAddC(b, c, j - 1)) \div 256

BigAdd(b, c) ==
    BigNorm([j \in 1..(Max(Len(b), Len(c)) + 1) |->
                (ByteAt(b, j) + ByteAt(c, j) + BigAddC(b, c, j - 1)) % 256])

\* b * m, for 0 <= m <= 8000000: the carry out of byte j, and the product
\* byte by byte
RECURSIVE BigMulC(_, _, _)
BigMulC(b, m, j) ==
    IF j = 0 THEN 0 ELSE (ByteAt(b, j) * m + BigMulC(b, m, j - 1)) \div 256

BigMul(b, m) ==
    BigNorm([j \in 1..(Len(b) + 3) |-> (ByteAt(b, j) * m + BigMulC(b, m, j - 1)) % 256])

\* long division of b by d (1 <= d <= 8000000), most significant byte first:
\* BigDivR is the remainder carried into byte j, and BigDivMod the record
\* [q |-> b div d, r |-> b mod d]
RECURSIVE BigDivR(_, _, _)
BigDivR(b, d, j) ==
    IF j > Len(b) THEN 0 ELSE (BigDivR(b, d, j + 1) * 256 + b[j]) % d

BigDivMod(b, d) ==
    [q |-> BigNorm([j \in 1..Len(b) |-> (BigDivR(b, d, j + 1) * 256 + b[j]) \div d]),
     r |-> BigDivR(b, d, 1)]

\* the value of a BigNat below 2^31 as an integer
BigToInt(b) ==
    ByteAt(b, 1) + 256 * ByteAt(b, 2) + 65536 * ByteAt(b, 3) + 16777216 * ByteAt(b, 4)

\* number of significant bits
RECURSIVE BitLen(_)
BitLen(v) == IF v = 0 THEN 0 ELSE 1 + BitLen(v \div 2)

BigBitLenNorm(b) == IF Len(b) = 0 THEN 0 ELSE 8 * (Len(b) - 1) + BitLen(b[Len(b)])

BigBitLen(b) == BigBitLenNorm(BigNorm(b))

\* ------------------------------------------------- datetime and timedelta
\* A naive datetime is [secs, us]: wall-clock seconds counted from
\* 1970-01-01 00:00:00 and microseconds 0..999999.  A timedelta is Python's
\* normalised triple [days, seconds, microseconds].
UsPerSec == 1000000
SecPerDay == 86400

\* year, month and day of a day count from 1970-01-01 (proleptic Gregorian
\* calendar, as datetime computes them): era of 400 years, day of era doe,
\* year of era yoe, day of the year counted from 1 March doy, month mp
\* counted from March
CivilOfMonth(era, yoe, doy, mp) ==
    [year  |-> yoe + era * 400 + (IF mp >= 10 THEN 1 ELSE 0),
     month |-> IF mp < 10 THEN mp + 3 ELSE mp - 9,
     day   |-> doy - (153 * mp + 2) \div 5 + 1]

CivilOfDoy(era, yoe, doy) == CivilOfMonth(era, yoe, doy, (5 * doy + 2) \div 153)

CivilOfYoe(era, doe, yoe) ==
    CivilOfDoy(era, yoe, doe - (365 * yoe + yoe \div 4 - yoe \div 100))

CivilOfDoe(era, doe) ==
    CivilOfYoe(era, doe,
               (doe - doe \div 1460 + doe \div 36524 - doe \div 146096) \div 365)

CivilFromDays(days) ==
    CivilOfDoe((days + 719468) \div 146097, (days + 719468) % 146097)

\* the calendar fields of a datetime
FieldsOf(c, sod) ==
    [year |-> c.year, month |-> c.month, day |-> c.day,
     hour |-> sod \div 3600, minute |-> (sod % 3600) \div 60, second |-> sod % 60]

Fields(dt) == FieldsOf(CivilFromDays(dt.secs \div SecPerDay), dt.secs % SecPerDay)

\* datetime.datetime.fromtimestamp(t) on a host whose local time is tz
\* minutes ahead of UTC
FromTimestamp(t, tz) == [secs |-> t + 60 * tz, us |-> 0]

\* a timedelta of s seconds and us microseconds (0 <= us < 10^6), normalised
\* as Python keeps it: 0 <= seconds < 86400, the sign in days only
Timedelta(s, us) ==
    [days |-> s \div SecPerDay, seconds |-> s % SecPerDay, microseconds |-> us]

\* datetime.datetime.now() - datetime.datetime.utcnow(): the host's offset,
\* less the skew microseconds that pass between the two clock reads
LocalMinusUtc(tz, skew) ==
    Timedelta(60 * tz + ((0 - skew) \div UsPerSec), (0 - skew) % UsPerSec)

\* datetime - timedelta
DtBorrow(secs, us) == [secs |-> secs + (us \div UsPerSec), us |-> us % UsPerSec]

DtMinusTd(dt, td) ==
    DtBorrow(dt.secs - td.days * SecPerDay - td.seconds, dt.us - td.microseconds)

\* round(x) of the float q + r/60, 0 <= r < 60: Python 3 rounds a tie to the
\* even integer
RoundTie(q, r) ==
    IF r < 30 THEN q
    ELSE IF r > 30 THEN q + 1
    ELSE IF q % 2 = 0 THEN q ELSE q + 1

\* round(seconds / 60.0)
RoundMinutes(seconds) == RoundTie(seconds \div 60, seconds % 60)

\* decimal digits as character codes
Digit(v) == 48 + v
TwoDigits(v) == << Digit((v \div 10) % 10), Digit(v % 10) >>
FourDigits(v) == TwoDigits(v \div 100) \o TwoDigits(v % 100)

\* strftime('%d.%m.%Y')
DateString(f) ==
    TwoDigits(f.day) \o << 46 >> \o TwoDigits(f.month) \o << 46 >> \o FourDigits(f.year)

makeContDateString(dt) == DateString(Fields(dt))

\* strftime('%Y/%m/%d %H:%M:%S')
DateTimeString(f) ==
    FourDigits(f.year) \o << 47 >> \o TwoDigits(f.month) \o << 47 >> \o
    TwoDigits(f.day) \o << 32 >> \o TwoDigits(f.hour) \o << 58 >> \o
    TwoDigits(f.minute) \o << 58 >> \o TwoDigits(f.second)

PmpdDateTime(dt) == DateTimeString(Fields(dt))

TimestampFields(f) == << f.year, f.month, 5, f.day, f.hour, f.minute, f.second >>

makeContTimestamp(dt) == TimestampFields(Fields(dt))

\* 116444736000000000, the FILETIME of 1970-01-01, as a BigNat
\* (0x019DB1DED53E8000)
FiletimeEpoch == << 0, 128, 62, 213, 222, 177, 157, 1 >>

\* makeWindowsFiletime for a whole-second Unix time 0 <= t < 2^31; the
\* product unix_time * 10000000 is exact in a double for such t
makeWindowsFiletimeMicros(unix_time) ==
    BigAdd(FiletimeEpoch, BigMul(BigMul(BigOfInt(unix_time), 1000), 1000))

makeWindowsFiletime(unix_time) ==
    BigAdd(FiletimeEpoch, BigMul(BigMul(BigOfInt(unix_time), 10000), 1000))

\* ------------------------------------------------------------ struct.pack
\* struct.pack(fmt, v): [ok, bytes]; ok is FALSE where Python raises
\* struct.error because v does not fit the format.  '<H' and 'B' take an
\* integer, '<I' and '<Q' a BigNat.
PackNorm(width, v) ==
    IF Len(v) > width THEN [ok |-> FALSE, bytes |-> << >>]
    ELSE [ok |-> TRUE, bytes |-> v \o Zeros(width - Len(v))]

PackWide(width, v) == PackNorm(width, BigNorm(v))

Pack(fmt, v) ==
    CASE fmt = "B" -> IF v >= 0 /\ v <= 255 THEN [ok |-> TRUE, bytes |-> << v >>]
                      ELSE [ok |-> FALSE, bytes |-> << >>]
      [] fmt = "H" -> IF v >= 0 /\ v <= 65535
                      THEN [ok |-> TRUE, bytes |-> << v % 256, v \div 256 >>]
                      ELSE [ok |-> FALSE, bytes |-> << >>]
      [] fmt = "I" -> PackWide(4, v)
      [] fmt = "Q" -> PackWide(8, v)

\* for c in chars: data += struct.pack(fmt, c) -- the loop over
\* vals[lo..hi], split in halves to keep the evaluation shallow
PackJoin(a, b) == [ok |-> a.ok /\ b.ok, bytes |-> a.bytes \o b.bytes]

RECURSIVE PackRange(_, _, _, _)
PackHalves(fmt, vals, lo, mid, top) ==
    PackJoin(PackRange(fmt, vals, lo, mid), PackRange(fmt, vals, mid + 1, top))

PackRange(fmt, vals, lo, top) ==
    IF lo > top THEN [ok |-> TRUE, bytes |-> << >>]
    ELSE IF lo = top THEN Pack(fmt, vals[lo])
    ELSE PackHalves(fmt, vals, lo, (lo + top) \div 2, top)

PackEach(fmt, vals) == PackRange(fmt, vals, 1, Len(vals))

\* ------------------------------------------------------ field descriptors
\* kind "raw": literal bytes ('raw': True); "str": a Python str (character
\* codes); "list": a list of integers; "int": one integer.  length is -1
\* where the descriptor has no 'length' key, prenul 0 where it has no
\* 'prenul' key.
Raw(bytes, prenul) ==
    [kind |-> "raw", data |-> bytes, fmt |-> "B", prenul |-> prenul, length |-> 0 - 1]
Str(chars, fmt, prenul, length) ==
    [kind |-> "str", data |-> chars, fmt |-> fmt, prenul |-> prenul, length |-> length]
List(vals, fmt, prenul) ==
    [kind |-> "list", data |-> vals, fmt |-> fmt, prenul |-> prenul, length |-> 0 - 1]
Int1(v, fmt, prenul) ==
    [kind |-> "int", data |-> v, fmt |-> fmt, prenul |-> prenul, length |-> 0 - 1]

\* the NUL bytes before the field
Prenul(buf, element) ==
    IF element.prenul > 0 THEN buf \o Zeros(element.prenul) ELSE buf

\* the bytes of the field itself
PackElement(element) ==
    CASE element.kind = "raw" -> [ok |-> TRUE, bytes |-> element.data]
      [] element.kind = "int" -> Pack(element.fmt, element.data)
      [] OTHER                -> PackEach(element.fmt, element.data)

\* "if 'length' in element and element['length'] > diff": zero bytes up to
\* the declared length, nothing otherwise
PadField(body, start, length) ==
    IF length > Len(body) - start
    THEN body \o Zeros(length - (Len(body) - start))
    ELSE body

AssemblePacked(buf, element, packed) ==
    [ok   |-> packed.ok,
     data |-> PadField(Prenul(buf, element) \o packed.bytes, Len(buf), element.length)]

\* One iteration of the assembler loop: the buffer after the element, or
\* ok = FALSE where struct.pack raises.
AssembleElement(buf, element) == AssemblePacked(buf, element, PackElement(element))

\* ------------------------------------------------------------- file names
\* index of the last '.' (code 46) of a name, 0 if there is none
LastDot(name) == SetMax({ j \in 0..Len(name) : j = 0 \/ name[j] = 46 })

\* os.path.splitext(fname)[0] for a name without directory part: the name up
\* to its last dot, unless only dots precede that dot
SplitAt(name, d) ==
    IF d > 0 /\ \E j \in 1..(d - 1) : name[j] # 46
    THEN SubSeq(name, 1, d - 1)
    ELSE name

Splitext0(name) == SplitAt(name, LastDot(name))

\* '%s.tmb' % fbase and '%s.pmpd' % fbase
TmbName(fname)  == Splitext0(fname) \o << 46, 116, 109, 98 >>
PmpdName(fname) == Splitext0(fname) \o << 46, 112, 109, 112, 100 >>

\* ------------------------------------------------------------- parameters
\* The params dictionary of buildMetadata and the values derived from it.
\* input: [fname, ctime, mtime, tz, skew, tmb_time, pmpd_time, file_size,
\* debug]; ctime, mtime, tmb_time and pmpd_time are what
\* fileCreationDate / os.path.getmtime return (whole seconds), tz the host's
\* UTC offset in minutes, skew the microseconds between now() and utcnow().
ParamsOf(in, created, tz_offset) ==
    [file_created    |-> created,
     file_modified   |-> FromTimestamp(in.mtime, in.tz),
     file_size       |-> in.file_size,
     audio_stream    |-> 4352,
     audio_bitrate   |-> BigOfInt(256000),
     audio_bitdepth  |-> 16,
     audio_channels  |-> 2,
     audio_frequency |-> 48000,
     record_dt       |-> created,
     tz_offset       |-> tz_offset,
     record_dt_utc   |-> DtMinusTd(created, tz_offset),
     record_str      |-> makeContDateString(created)]

Params(in) ==
    ParamsOf(in, FromTimestamp(in.ctime, in.tz), LocalMinusUtc(in.tz, in.skew))

\* the value substituted for $bias$ in the PMPD template
PmpdBias(tz_offset) == RoundMinutes(tz_offset.seconds)

MagicTag     == << 80, 95, 67, 111, 110, 116, 95 >>         \* 'P_Cont_'
MagicTail    == << 10, 67, 111, 110, 116, 10 >>             \* '\nCont\n'
CameraHeader ==
    << 10, 0, 0, 0, 0, 16, 1, 0, 0, 0, 0, 1, 5, 0, 0, 0, 1, 0, 0, 0, 76, 0, 0, 0,
       2, 0, 0, 0, 228, 2, 0, 0, 5, 0, 0, 0, 254, 2, 0, 0, 6, 0, 0, 0, 80, 3, 0, 0,
       10, 0, 0, 0, 214, 3 >>
BrandLiteral  == << 80, 97, 110, 97, 115, 111, 110, 105, 99 >>   \* 'Panasonic'
\* '01\0' + 'HC-V210/V110\0' + '00\0' + '00'
DeviceLiteral ==
    << 48, 49, 0, 72, 67, 45, 86, 50, 49, 48, 47, 86, 49, 49, 48, 0, 48, 48, 0, 48, 48 >>

\* the file_structure list of buildMetadata, in source order
FileStructureOf(in, p, fname, tmb_file, pmpd_file) ==
    << Str(MagicTag, "H", 0, 0 - 1),
       Str(MagicTail, "B", 0, 0 - 1),
       Raw(CameraHeader, 0),
       List(makeContTimestamp(p.record_dt), "H", 2),
       List(makeContTimestamp(p.record_dt_utc), "H", 2),
       List(makeContTimestamp(p.file_modified), "H", 2),
       List(makeContTimestamp(p.file_created), "H", 2),
       Int1(p.file_size, "I", 2),
       Raw(<< 128 >>, 4),
       Raw(<< 16 >>, 0),
       Int1(19064, "H", 0),
       Int1(0, "H", 0),
       List(<< 0, 0, 0, 0, 0 >>, "H", 0),
       List(<< 26570, 240 >>, "H", 0),
       List(<< 1, 256 >>, "H", 0),
       Raw(<< 32, 0 >>, 0),
       Int1(0, "H", 2),
       Int1(1920, "H", 2),
       Int1(1080, "H", 2),
       Int1(16, "H", 2),
       Int1(9, "H", 2),
       Int1(25, "H", 2),
       Int1(1, "H", 2),
       Int1(128, "H", 2),
       Int1(p.audio_stream, "H", 0),
       Int1(1, "H", 0),
       Int1(p.audio_bitrate, "I", 2),
       Int1(p.audio_bitdepth, "H", 0),
       Int1(p.audio_channels, "H", 0),
       Int1(p.audio_frequency, "H", 0),
       Raw(<< 4, 0, 0, 33 >>, 2),
       Str(BrandLiteral, "H", 0, 256),
       Str(DeviceLiteral, "H", 0, 254),
       Raw(<< 22, 0 >>, 2),
       Str(p.record_str, "H", 2, 0 - 1),
       Raw(<< 1, 0 >>, 2),
       Raw(<< 6, 3 >>, 2),
       Raw(Zeros(8), 0),
       Int1(p.file_size, "I", 2),
       Raw(Zeros(4), 0),
       Int1(makeWindowsFiletime(in.ctime), "Q", 0),
       Int1(2 * Len(fname) + 2, "H", 0),
       Str(fname, "H", 2, 0 - 1),
       Raw(<< 2, 0 >>, 2),
       Raw(Zeros(10), 2),
       Int1(makeWindowsFiletime(in.tmb_time), "Q", 2),
       Int1(2 * Len(tmb_file) + 2, "H", 0),
       Str(tmb_file, "H", 2, 0 - 1),
       Raw(<< 4, 0 >>, 2),
       Int1(makeWindowsFiletime(in.pmpd_time), "Q", 2),
       Int1(2 * Len(pmpd_file) + 2, "H", 0),
       Str(pmpd_file, "H", 2, 0 - 1),
       Raw(Zeros(2), 0) >>

FileStructure(in, p) ==
    FileStructureOf(in, p, in.fname, TmbName(in.fname), PmpdName(in.fname))

\* The bytes one element adds do not depend on the buffer before it (diff is
\* a difference of lengths), so the buffer after elements lo..top is the
\* concatenation of what each adds; ok = FALSE if struct.pack raises in one.
AssembleJoin(a, b) == [ok |-> a.ok /\ b.ok, data |-> a.data \o b.data]

RECURSIVE AssembleRange(_, _, _)
AssembleHalves(fstruct, lo, mid, top) ==
    AssembleJoin(AssembleRange(fstruct, lo, mid), AssembleRange(fstruct, mid + 1, top))

AssembleRange(fstruct, lo, top) ==
    IF lo > top THEN [ok |-> TRUE, data |-> << >>]
    ELSE IF lo = top THEN AssembleElement(<< >>, fstruct[lo])
    ELSE AssembleHalves(fstruct, lo, (lo + top) \div 2, top)

AssembleAll(fstruct) == AssembleRange(fstruct, 1, Len(fstruct))

\* ---------------------------------------------------------------- decoder
\* array.array('H', data) on a little-endian host, and reveng.readFile16:
\* floor(size / 2) words, low byte first
ToWords(bytes) ==
    [j \in 1..(Len(bytes) \div 2) |-> bytes[2 * j - 1] + 256 * bytes[2 * j]]

\* data[j] for an index in range (0-based)
W(ws, j) == ws[j + 1]
\* data[j] where the caller has already established j < len(data); 0 beyond
Wz(ws, j) == IF j >= 0 /\ j < Len(ws) THEN ws[j + 1] ELSE 0
\* the slice data[a:b]: clamped to the sequence, never an error
Slice(ws, a, b) == SubSeq(ws, a + 1, Min(b, Len(ws)))

\* reveng.extractChars.  What the loop appends for the word at position j
\* (1-based) of ws: the character, or a line break (code 10) for a zero
\* word, or nothing (-1).  The list s is non-empty with a last element other
\* than '\n' exactly when the word before j is neither 0 nor 10: a zero word
\* leaves s empty or ending in '\n', any other word is appended as it is.
extractAtEachNul(ws, j) == IF ws[j] # 0 THEN ws[j] ELSE 10

extractAt(ws, j) ==
    IF ws[j] # 0 THEN ws[j]
    ELSE IF j > 1 /\ ws[j - 1] # 0 /\ ws[j - 1] # 10 THEN 10
    ELSE 0 - 1

Appended(c) == c >= 0

extractChars(ws) == SelectSeq([j \in 1..Len(ws) |-> extractAt(ws, j)], Appended)

identifySource(field) ==
    CASE field = 32 -> "Directly Imported"
      [] field = 33 -> "Single-Clip Project"
      [] field = 48 -> "Previous Library Import (TBC)"
      [] field = 49 -> "Multi-Clip Project"
      [] OTHER      -> "Unknown Value"

\* (hi << 16) + lo as a BigNat
U32(lo, high) == BigNorm(<< lo % 256, lo \div 256, high % 256, high \div 256 >>)

IsLeap(y) == (y % 4 = 0 /\ y % 100 # 0) \/ y % 400 = 0
DaysInMonth(y, m) ==
    IF m = 2 THEN (IF IsLeap(y) THEN 29 ELSE 28)
    ELSE IF m \in {4, 6, 9, 11} THEN 30 ELSE 31

\* whether datetime.datetime(y, m, d, h, mi, s) accepts its arguments
ValidDate(y, m, d, h, mi, s) ==
    /\ y >= 1 /\ y <= 9999
    /\ m >= 1 /\ m <= 12
    /\ d >= 1 /\ d <= DaysInMonth(y, m)
    /\ h <= 23 /\ mi <= 59 /\ s <= 59

\* readContTimestamp(data[n:n+8]): the fields picked from the 8-word record
readContTimestamp(ws, at) ==
    [year |-> Wz(ws, at + 1), month |-> Wz(ws, at + 2), day |-> Wz(ws, at + 4),
     hour |-> Wz(ws, at + 5), minute |-> Wz(ws, at + 6), second |-> Wz(ws, at + 7)]

\* b / d rounded to the nearest integer, a tie to the even one
RoundQuotient(dm, d) ==
    IF 2 * dm.r < d THEN dm.q
    ELSE IF 2 * dm.r > d THEN BigAdd(dm.q, << 1 >>)
    ELSE IF Len(dm.q) = 0 \/ dm.q[1] % 2 = 0 THEN dm.q
    ELSE BigAdd(dm.q, << 1 >>)

RoundHalfEven(b, d) == RoundQuotient(BigDivMod(b, d), d)

RECURSIVE Pow2(_)
Pow2(e) == IF e = 0 THEN 1 ELSE 2 * Pow2(e - 1)

\* usecs = filetime/10 is a float division: the quotient is rounded to a
\* double (53 significant bits), and timedelta rounds the double to whole
\* microseconds
FloatScale(bits) == IF bits > 53 THEN Pow2(bits - 53) ELSE 1

FloatRound(filetime, scale) ==
    Strict(RoundHalfEven(filetime, 10 * scale), LAMBDA q : BigMul(q, scale))

FloatDiv10(filetime) ==
    Strict(FloatScale(BigBitLen(BigDivMod(filetime, 10).q)),
           LAMBDA scale : FloatRound(filetime, scale))

\* last day datetime can hold, 9999-12-31, counted from 1601-01-01
MaxDay1601 == 3067670

\* (data[3] << 48) + (data[2] << 32) + (data[1] << 16) + data[0] of the
\* slice data[a:a+4]
FiletimeOf(ws, a) ==
    << Wz(ws, a) % 256, Wz(ws, a) \div 256,
       Wz(ws, a + 1) % 256, Wz(ws, a + 1) \div 256,
       Wz(ws, a + 2) % 256, Wz(ws, a + 2) \div 256,
       Wz(ws, a + 3) % 256, Wz(ws, a + 3) \div 256 >>

\* datetime(1601,1,1) + timedelta(microseconds=usecs): the instant as
\* [days, seconds, microseconds] after 1601-01-01 00:00:00; ok = FALSE where
\* the sum leaves datetime's range (OverflowError)
TimestampOfDays(days, seconds, us) ==
    [ok |-> days <= MaxDay1601,
     dt |-> [days |-> days, seconds |-> seconds, microseconds |-> us]]

TimestampOfUsecs(s) ==
    Strict(BigDivMod(s.q, SecPerDay),
           LAMBDA d : TimestampOfDays(BigToInt(d.q), d.r, s.r))

TimestampOfFloat(usecs) == Strict(BigDivMod(usecs, UsPerSec), TimestampOfUsecs)

TimestampOfFiletime(filetime) == Strict(FloatDiv10(filetime), TimestampOfFloat)

filetimeToTimestamp(ws, a) == Strict(FiletimeOf(ws, a), TimestampOfFiletime)

\* ------------------------------------------------------- header detection
FirstCandidate == 29
LastCandidate  == 37

\* The test of one candidate offset c, evaluated left to right with
\* Python's short circuit: "match", "nomatch", or "IndexError" with the
\* index that was out of range.  hi is the greatest index subscripted.
Tested(res, j) == [res |-> res, hi |-> j]

TestCandidate(ws, c) ==
    IF c >= Len(ws) THEN Tested("IndexError", c)
    ELSE IF c + 8 >= Len(ws) THEN Tested("IndexError", c + 8)
    ELSE IF W(ws, c) # W(ws, c + 8) THEN Tested("nomatch", c + 8)
    ELSE IF c + 16 >= Len(ws) THEN Tested("IndexError", c + 16)
    ELSE IF W(ws, c + 8) # W(ws, c + 16) THEN Tested("nomatch", c + 16)
    ELSE IF c + 24 >= Len(ws) THEN Tested("IndexError", c + 24)
    ELSE IF W(ws, c + 16) # W(ws, c + 24) THEN Tested("nomatch", c + 24)
    ELSE IF W(ws, c + 1) # W(ws, c + 9) THEN Tested("nomatch", c + 24)
    ELSE Tested("match", c + 24)

\* for n in range(29,38,1): if <test>: break  -- the value n has after the
\* loop, whether the loop ended by break (found), and the error if one is
\* raised on the way
Detected(c, ok, e, top) == [n |-> c, found |-> ok, err |-> e, hi |-> top]

RECURSIVE DetectFrom(_, _, _)
DetectTestedNoBreak(ws, c, top, t) ==
    IF t.res = "IndexError" THEN Detected(c, FALSE, "IndexError", Max(top, t.hi))
    ELSE IF c = LastCandidate THEN Detected(c, t.res = "match", "none", Max(top, t.hi))
    ELSE DetectFrom(ws, c + 1, Max(top, t.hi))

DetectTested(ws, c, top, t) ==
    IF t.res = "IndexError" THEN Detected(c, FALSE, "IndexError", Max(top, t.hi))
    ELSE IF t.res = "match" THEN Detected(c, TRUE, "none", Max(top, t.hi))
    ELSE IF c = LastCandidate THEN Detected(c, FALSE, "none", Max(top, t.hi))
    ELSE DetectFrom(ws, c + 1, Max(top, t.hi))

DetectFrom(ws, c, top) == DetectTested(ws, c, top, TestCandidate(ws, c))

DetectHeaderLength(ws) == DetectFrom(ws, FirstCandidate, 0 - 1)

\* ----------------------------------------------------- fixed header block
\* One printed line of the header block: its label k, the indices it
\* subscripts in evaluation order (idx), the last index of the slice it takes
\* (span, -1 if it takes none), its value v, and whether the value can be
\* built (valid = FALSE: datetime raises ValueError).
Line(label, idx, v) == [k |-> label, idx |-> idx, span |-> 0 - 1, v |-> v, valid |-> TRUE]

SliceLine(label, ws, a, b) ==
    [k |-> label, idx |-> << >>, span |-> Min(b, Len(ws)) - 1,
     v |-> extractChars(Slice(ws, a, b)), valid |-> TRUE]

TimestampLineOf(label, c, t) ==
    [k |-> label, idx |-> << c + 1, c + 2, c + 4, c + 5, c + 6, c + 7 >>,
     span |-> c + 7, v |-> t,
     valid |-> ValidDate(t.year, t.month, t.day, t.hour, t.minute, t.second)]

TimestampLine(label, ws, c) == TimestampLineOf(label, c, readContTimestamp(ws, c))

\* the lines printCont prints between the header detection and the scan for
\* the detected offset n0, in source order; m is the source's n after the
\* file size (n0 + 35) and x is m + 16
HeaderBlock(ws, n0, m, x, unknown) ==
    (IF unknown THEN << >>
     ELSE << TimestampLine("Recorded", ws, n0),
             TimestampLine("Recorded (UTC)", ws, n0 + 8),
             TimestampLine("Last Modified", ws, n0 + 16),
             TimestampLine("File Created", ws, n0 + 24),
             Line("File Size", << n0 + 34, n0 + 33 >>,
                  U32(Wz(ws, n0 + 33), Wz(ws, n0 + 34))) >>)
    \o
    << Line("Unknown Data 1", << m + 2 >>, Wz(ws, m + 2)),
       Line("Unknown Data 2", << m + 3 >>, Wz(ws, m + 3)),
       Line("Unknown Data 3", << m + 4 >>, Wz(ws, m + 4)),
       Line("Unknown", << m + 10 >>, Wz(ws, m + 10)),
       Line("Unknown Flag", << m + 11 >>, Wz(ws, m + 11)),
       Line("Unknown Const", << m + 12 >>, Wz(ws, m + 12)),
       Line("Unknown Const", << m + 13 >>, Wz(ws, m + 13)),
       Line("Origin (TBC)", << m + 14 >>, identifySource(Wz(ws, m + 14))) >>
    \o
    (IF unknown THEN << >>
     ELSE << Line("Video Unknown", << x >>, Wz(ws, x)),
             Line("Frame size", << x + 2, x + 4 >>, << Wz(ws, x + 2), Wz(ws, x + 4) >>),
             Line("Aspect ratio", << x + 6, x + 8 >>, << Wz(ws, x + 6), Wz(ws, x + 8) >>),
             Line("Frame rate", << x + 10 >>, Wz(ws, x + 10)),
             Line("Video Unknown", << x + 12 >>, Wz(ws, x + 12)),
             Line("Audio Unknown", << x + 14 >>, Wz(ws, x + 14)),
             Line("Stream ID", << x + 15 >>, Wz(ws, x + 15)),
             Line("Audio Unknown", << x + 16 >>, Wz(ws, x + 16)),
             Line("Bitrate", << x + 19, x + 18 >>, U32(Wz(ws, x + 18), Wz(ws, x + 19))),
             Line("Bitdepth", << x + 20 >>, Wz(ws, x + 20)),
             Line("Channels", << x + 21 >>, Wz(ws, x + 21)),
             Line("Frequency", << x + 22 >>, Wz(ws, x + 22)),
             SliceLine("Brand", ws, x + 26, x + 26 + 128),
             SliceLine("Device", ws, x + 26 + 128, x + 26 + 256) >>)

HeaderLines(ws, n0, unknown) == HeaderBlock(ws, n0, n0 + 35, n0 + 35 + 16, unknown)

\* the first index of idx that is out of range, or -1
RECURSIVE FirstBad(_, _)
FirstBad(idx, L) ==
    IF Len(idx) = 0 THEN 0 - 1
    ELSE IF Head(idx) >= L THEN Head(idx)
    ELSE FirstBad(Tail(idx), L)

RECURSIVE MaxOf(_, _)
MaxOf(idx, m) == IF Len(idx) = 0 THEN m ELSE MaxOf(Tail(idx), Max(m, Head(idx)))

\* whether printing the line raises
LineFails(line, L) == FirstBad(line.idx, L) >= 0 \/ ~line.valid

\* position of the first line that raises, Len(lines) + 1 if none does
FirstOf(failing, none) == IF failing = {} THEN none ELSE SetMin(failing)

StopAt(lines, L) ==
    FirstOf({ j \in 1..Len(lines) : LineFails(lines[j], L) }, Len(lines) + 1)

\* greatest index requested by the lines before position stop
ReachedBefore(lines, stop, top) ==
    SetMax({ Max(MaxOf(lines[j].idx, top), lines[j].span) : j \in 1..(stop - 1) }
           \cup { top })

PrintResult(lines, L, printed, reached, stop) ==
    IF stop > Len(lines)
    THEN [out |-> printed, err |-> "none", hi |-> reached]
    ELSE IF FirstBad(lines[stop].idx, L) >= 0
    THEN [out |-> printed, err |-> "IndexError",
          hi |-> Max(reached, FirstBad(lines[stop].idx, L))]
    ELSE [out |-> printed, err |-> "ValueError", hi |-> MaxOf(lines[stop].idx, reached)]

PrintUpTo(lines, L, sofar, top, stop) ==
    PrintResult(lines, L,
                sofar \o [j \in 1..(stop - 1) |-> [k |-> lines[j].k, v |-> lines[j].v]],
                ReachedBefore(lines, stop, top), stop)

\* Print the lines in order until one raises: [out, err, hi].  The first
\* line that subscripts past the end (IndexError) or builds an invalid date
\* (ValueError) ends the run; the lines before it are printed.
PrintLines(lines, L, sofar, top) == PrintUpTo(lines, L, sofar, top, StopAt(lines, L))

\* index of the first word of the tagged-record sequence for a detected n0
ScanStart(n0) == n0 + 35 + 16 + 22 + 4 + 256

\* ------------------------------------------------------ tagged-record scan
TagDatestamp == 22
TagVideo     == 1
TagThumbnail == 2
TagXml       == 4

\* index of the first zero word at or after x, or len(data) if there is none
FindZero(ws, x) == FirstOf({ j \in x..(Len(ws) - 1) : W(ws, j) = 0 }, Len(ws))

\* int(data[x-1] / 2)
StrLenOfChars(lenword) == lenword \div 2 - 1

StrLen(lenword) == lenword \div 2

Scanned(e, cursor, lines, top) == [err |-> e, i |-> cursor, lines |-> lines, hi |-> top]

RecordTitle(title) == << [k |-> title, v |-> << >>] >>

\* the lines of a file record whose words could all be read
RecordLines(ws, title, sizeAt, lenAt, unknown, ft, str_len) ==
    RecordTitle(title) \o
    (IF unknown THEN << >>
     ELSE (IF sizeAt >= 0
           THEN << [k |-> "File Size", v |-> U32(W(ws, sizeAt), W(ws, sizeAt + 1))] >>
           ELSE << >>)
          \o << [k |-> "Creation Date", v |-> ft.dt],
                [k |-> "File Name",
                 v |-> extractChars(Slice(ws, lenAt + 1, lenAt + 1 + str_len))] >>)

RecordNamedNoStep(ws, title, sizeAt, lenAt, unknown, ft, str_len) ==
    Scanned("none", lenAt + 1 + str_len,
            RecordLines(ws, title, sizeAt, lenAt, unknown, ft, str_len),
            Max(lenAt, Min(lenAt + str_len, Len(ws) - 1)))

\* x = lenAt + 1; i = x + str_len; i += 1
RecordNamed(ws, title, sizeAt, lenAt, unknown, ft, str_len) ==
    Scanned("none", lenAt + 1 + str_len + 1,
            RecordLines(ws, title, sizeAt, lenAt, unknown, ft, str_len),
            Max(lenAt, Min(lenAt + str_len, Len(ws) - 1)))

RecordDated(ws, c, title, sizeAt, ftAt, lenAt, unknown, ft) ==
    IF ~ft.ok THEN Scanned("OverflowError", c, RecordTitle(title), ftAt + 3)
    ELSE IF lenAt >= Len(ws) THEN Scanned("IndexError", c, RecordTitle(title), lenAt)
    ELSE RecordNamed(ws, title, sizeAt, lenAt, unknown, ft, StrLen(W(ws, lenAt)))

\* One iteration of the scan loop on a file record whose tag is at cursor c:
\* sizeAt is the index of the low size word (-1: the record has no size),
\* ftAt the index of the FILETIME, lenAt the index of the length word.
\* Result: [err, i (the cursor after the closing i += 1), lines, hi].
FileRecord(ws, c, title, sizeAt, ftAt, lenAt, unknown) ==
    IF sizeAt >= 0 /\ sizeAt + 1 >= Len(ws)
    THEN Scanned("IndexError", c, RecordTitle(title), sizeAt + 1)
    ELSE IF ftAt + 3 >= Len(ws)
    THEN Scanned("IndexError", c, RecordTitle(title), ftAt + 3)
    ELSE RecordDated(ws, c, title, sizeAt, ftAt, lenAt, unknown,
                     filetimeToTimestamp(ws, ftAt))

DatestampUpToNoStep(ws, c, z) ==
    IF z >= Len(ws)
    THEN Scanned("IndexError", c, << >>, Max(z, c + 2))
    ELSE Scanned("none", c,
                 << [k |-> "Datestamp detected", v |-> extractChars(Slice(ws, c + 2, z))] >>,
                 z)

\* the datestamp record: the characters from c+2 up to the next zero word z
DatestampUpTo(ws, c, z) ==
    IF z >= Len(ws)
    THEN Scanned("IndexError", c, << >>, Max(z, c + 2))
    ELSE Scanned("none", z + 1,
                 << [k |-> "Datestamp detected", v |-> extractChars(Slice(ws, c + 2, z))] >>,
                 z)

DatestampRecord(ws, c) == DatestampUpTo(ws, c, FindZero(ws, c + 2))

ScanElementSkipTwo(ws, c, element, unknown) ==
    CASE element = TagDatestamp -> DatestampRecord(ws, c)
      [] element = TagVideo     ->
            FileRecord(ws, c, "Video File", c + 8, c + 12, c + 16, unknown)
      [] element = TagThumbnail ->
            FileRecord(ws, c, "Thumbnail file:", 0 - 1, c + 8, c + 12, unknown)
      [] element = TagXml       ->
            FileRecord(ws, c, "XML file:", 0 - 1, c + 2, c + 6, unknown)
      [] OTHER                  -> Scanned("none", c + 2, << >>, c + 1)

\* the body of one iteration of "while i < len(data)" for cursor c
ScanElement(ws, c, element, unknown) ==
    CASE element = TagDatestamp -> DatestampRecord(ws, c)
      [] element = TagVideo     ->
            FileRecord(ws, c, "Video File", c + 8, c + 12, c + 16, unknown)
      [] element = TagThumbnail ->
            FileRecord(ws, c, "Thumbnail file:", 0 - 1, c + 8, c + 12, unknown)
      [] element = TagXml       ->
            FileRecord(ws, c, "XML file:", 0 - 1, c + 2, c + 6, unknown)
      [] OTHER                  -> Scanned("none", c + 1, << >>, c)

ScanIteration(ws, c, unknown) == ScanElement(ws, c, W(ws, c), unknown)

\* ------------------------------------------------------------------ state
VARIABLES
    input,           \* the source file and host facts buildMetadata reads
    damage,          \* how the CONT file on disk differs from encoder output
    pc,              \* position of the program
    disk,            \* the files written: tmb, pmpd, cont (<< >> = absent)
    params,          \* buildMetadata's params dictionary (<< >> before it is built)
    file_structure,  \* buildMetadata's list of field descriptors
    k,               \* index of the next file_structure element (1-based)
    data,            \* the byte buffer of the assembler
    caller,          \* who called printCont: "debug" (buildMetadata), "analyse"
    unknown_fields,  \* printCont's unknown_fields argument
    words,           \* printCont's data
    n,               \* the offset the header detection leaves in n
    found,           \* whether the detection loop ended by break
    i,               \* the scan cursor
    out,             \* the labelled lines printed so far
    landed,          \* the cursor values at which an iteration read data[i]
    hi,              \* greatest word index requested so far (-1: none)
    err              \* the exception that ended the program, or "none"

vars == << input, damage, pc, disk, params, file_structure, k, data, caller,
           unknown_fields, words, n, found, i, out, landed, hi, err >>

encVars == << params, file_structure, k, data >>
decVars == << caller, unknown_fields, words, n, found, i, out, landed, hi >>

\* ----------------------------------------------------------------- inputs
\* source file names: a stem of 1..MaxStem characters, each the letter 'A'
\* or a line break, with or without the extension ".M"
Stems == UNION { [1..l -> {65, 10}] : l \in 1..MaxStem }
Names == Stems \cup { st \o << 46, 77 >> : st \in Stems }

\* <<creation time, modification time>> of the source file, Unix seconds
TimePairs ==
    { << 1559384130, 1559384130 >>,     \* 2019-06-01 10:15:30 UTC, both
      << 1559383205, 1559384400 >>,     \* 10:00:05 and 10:20:00 UTC that day
      << 1577824200, 1577824200 >>,     \* 2019-12-31 20:30:00 UTC, both
      << 1577824200, 1577838600 >>,     \* that and 2020-01-01 00:30:00 UTC
      << 1561926600, 1561926600 >>,     \* 2019-06-30 20:30:00 UTC, both
      << 0, 0 >> }                      \* the Unix epoch

\* <<UTC offset of the host in minutes, microseconds between the clock reads>>
Hosts == { << 0, 0 >>, << 0, 3 >>, << 600, 3 >>, << 0 - 300, 3 >>, << 0 - 300, 0 >> }

\* os.path.getsize of the source file, as a BigNat: 54321 bytes, an empty
\* file, the greatest size four bytes hold (2^32 - 1) and the first size
\* they do not hold (2^32)
BaseSize == << 49, 212 >>

FileSizes == { BaseSize, << >>, << 255, 255, 255, 255 >>, << 0, 0, 0, 0, 1 >> }

MakeInput(name, tp, host, size, debug) ==
    [fname |-> name, ctime |-> tp[1], mtime |-> tp[2], tz |-> host[1], skew |-> host[2],
     tmb_time |-> 1546300800, pmpd_time |-> tp[2] + 60,
     file_size |-> size, debug |-> debug]

BaseName   == << 65, 46, 77 >>                        \* "A.M"
BaseTimes  == << 1559384130, 1559384130 >>
BaseHost   == << 600, 3 >>

\* every name, every time pair on every host, and every file size, each
\* varied against the base values of the others
Inputs ==
    { MakeInput(name, BaseTimes, BaseHost, BaseSize, debug) :
        name \in Names, debug \in BOOLEAN }
    \cup
    { MakeInput(BaseName, tp, host, BaseSize, debug) :
        tp \in TimePairs, host \in Hosts, debug \in BOOLEAN }
    \cup
    { MakeInput(BaseName, BaseTimes, BaseHost, size, debug) :
        size \in FileSizes, debug \in BOOLEAN }

NoDamage == [kind |-> "none", at |-> 0, v |-> 0]

DecoderIdle ==
    /\ caller = "none" /\ unknown_fields = FALSE /\ words = << >>
    /\ n = 0 /\ found = FALSE /\ i = 0 /\ out = << >> /\ landed = << >> /\ hi = 0 - 1

Init ==
    /\ input \in Inputs
    /\ damage = NoDamage
    /\ pc = "start"
    /\ disk = [tmb |-> FALSE, pmpd |-> << >>, cont |-> << >>]
    /\ params = << >> /\ file_structure = << >>
    /\ k = 0 /\ data = << >>
    /\ DecoderIdle
    /\ err = "none"

\* ---------------------------------------------------------- buildMetadata
\* lines 303-342: names and params
PrepareParams ==
    /\ pc = "start"
    /\ params' = Params(input)
    /\ pc' = "thumb"
    /\ UNCHANGED << input, damage, disk, file_structure, k, data, decVars, err >>

CopyThumbnailSkipped ==
    /\ pc = "thumb"
    /\ pc' = "pmpd"
    /\ UNCHANGED << input, damage, disk, encVars, decVars, err >>

\* shutil.copy2 of the template thumbnail
CopyThumbnail ==
    /\ pc = "thumb"
    /\ disk' = [disk EXCEPT !.tmb = TRUE]
    /\ pc' = "pmpd"
    /\ UNCHANGED << input, damage, encVars, decVars, err >>

\* the PMPD file with $bias$ and $datetime$ substituted
WritePmpd ==
    /\ pc = "pmpd"
    /\ disk' = [disk EXCEPT !.pmpd =
                  << [bias     |-> PmpdBias(params.tz_offset),
                      datetime |-> PmpdDateTime(params.record_dt)] >>]
    /\ pc' = "structure"
    /\ UNCHANGED << input, damage, encVars, decVars, err >>

\* file_structure = [...]; data = b''
BuildStructure ==
    /\ pc = "structure"
    /\ file_structure' = FileStructure(input, params)
    /\ k' = 1
    /\ data' = << >>
    /\ pc' = "assemble"
    /\ UNCHANGED << input, damage, disk, params, decVars, err >>

\* the state after one iteration: r is what the iteration made of the buffer
Assembled(r) ==
    IF r.ok
    THEN /\ data' = r.data
         /\ k' = k + 1
         /\ UNCHANGED << pc, err >>
    ELSE /\ pc' = "crashed"
         /\ err' = "struct.error"
         /\ UNCHANGED << k, data >>

\* one iteration of "for element in file_structure"
AssembleNext ==
    /\ pc = "assemble"
    /\ k <= Len(file_structure)
    /\ Assembled(AssembleElement(data, file_structure[k]))
    /\ UNCHANGED << input, damage, disk, params, file_structure, decVars >>

\* the loop is over: with debug, printCont(data) runs before the file is
\* written
AssembleDone ==
    /\ pc = "assemble"
    /\ k > Len(file_structure)
    /\ IF input.debug
       THEN /\ pc' = "detect"
            /\ caller' = "debug"
            /\ unknown_fields' = FALSE
            /\ words' = ToWords(data)
            /\ UNCHANGED << n, found, i, out, landed, hi >>
       ELSE /\ pc' = "write"
            /\ UNCHANGED decVars
    /\ UNCHANGED << input, damage, disk, encVars, err >>

\* printCont returned to buildMetadata
DebugReturn ==
    /\ pc = "decoded"
    /\ caller = "debug"
    /\ pc' = "write"
    /\ UNCHANGED << input, damage, disk, encVars, decVars, err >>

\* open(cont_file, 'w+b'); f.write(data)
WriteCont ==
    /\ pc = "write"
    /\ disk' = [disk EXCEPT !.cont = << data >>]
    /\ pc' = "built"
    /\ UNCHANGED << input, damage, encVars, decVars, err >>

\* ------------------------------------------------- analyseCont, printCont
\* analyseCont on the CONT file on disk, with or without --unknown
Analyse ==
    /\ pc = "built"
    /\ disk.cont # << >>
    /\ \E u \in BOOLEAN : unknown_fields' = u
    /\ words' = ToWords(disk.cont[1])
    /\ caller' = "analyse"
    /\ n' = 0 /\ found' = FALSE /\ i' = 0 /\ out' = << >> /\ landed' = << >>
    /\ hi' = 0 - 1
    /\ pc' = "detect"
    /\ UNCHANGED << input, damage, disk, encVars, err >>

\* the state after the header-length loop returned r
HeaderDetected(r) ==
    /\ n' = r.n
    /\ found' = r.found
    /\ hi' = Max(hi, r.hi)
    /\ IF r.err = "none"
       THEN pc' = "header" /\ err' = err
       ELSE pc' = "crashed" /\ err' = r.err

\* lines 86-95: the file type line and the header-length loop
DetectHeader ==
    /\ pc = "detect"
    /\ out' = IF unknown_fields THEN out
              ELSE Append(out, [k |-> "Type", v |-> extractChars(Slice(words, 0, 7))])
    /\ HeaderDetected(DetectHeaderLength(words))
    /\ UNCHANGED << input, damage, disk, encVars, caller, unknown_fields, words, i, landed >>

\* the state after the header block printed r
HeaderPrinted(r) ==
    /\ out' = r.out
    /\ hi' = r.hi
    /\ IF r.err = "none"
       THEN pc' = "scan" /\ i' = ScanStart(n) /\ err' = err
       ELSE pc' = "crashed" /\ i' = i /\ err' = r.err

\* lines 97-172: timestamps, file size, unidentified fields, streams, device
PrintHeader ==
    /\ pc = "header"
    /\ HeaderPrinted(PrintLines(HeaderLines(words, n, unknown_fields), Len(words), out, hi))
    /\ UNCHANGED << input, damage, disk, encVars, caller, unknown_fields, words, n,
                    found, landed >>

\* the state after one iteration of the scan loop returned r
IterationDone(r) ==
    /\ landed' = Append(landed, i)
    /\ out' = out \o r.lines
    /\ hi' = Max(hi, Max(i, r.hi))
    /\ IF r.err = "none"
       THEN pc' = pc /\ i' = r.i /\ err' = err
       ELSE pc' = "crashed" /\ i' = i /\ err' = r.err

\* the body of "while i < len(data)" at the cursor i
ScanBody ==
    /\ IterationDone(ScanIteration(words, i, unknown_fields))
    /\ UNCHANGED << input, damage, disk, encVars, caller, unknown_fields, words, n, found >>

KnownTags == { TagDatestamp, TagVideo, TagThumbnail, TagXml }

\* one iteration of the loop, by the branch the word under the cursor takes
ScanDatestamp ==
    /\ pc = "scan" /\ i < Len(words)
    /\ W(words, i) = TagDatestamp
    /\ ScanBody

ScanVideo ==
    /\ pc = "scan" /\ i < Len(words)
    /\ W(words, i) = TagVideo
    /\ ScanBody

ScanThumbnail ==
    /\ pc = "scan" /\ i < Len(words)
    /\ W(words, i) = TagThumbnail
    /\ ScanBody

ScanXml ==
    /\ pc = "scan" /\ i < Len(words)
    /\ W(words, i) = TagXml
    /\ ScanBody

\* no branch matches: only the closing i += 1 runs
ScanOther ==
    /\ pc = "scan" /\ i < Len(words)
    /\ W(words, i) \notin KnownTags
    /\ ScanBody

\* the loop condition fails: printCont returns
ScanEnd ==
    /\ pc = "scan"
    /\ i >= Len(words)
    /\ pc' = "decoded"
    /\ UNCHANGED << input, damage, disk, encVars, decVars, err >>

Decode ==
    \/ DetectHeader \/ PrintHeader
    \/ ScanDatestamp \/ ScanVideo \/ ScanThumbnail \/ ScanXml \/ ScanOther
    \/ ScanEnd

Next ==
    \/ PrepareParams \/ CopyThumbnail \/ WritePmpd \/ BuildStructure
    \/ AssembleNext \/ AssembleDone \/ DebugReturn \/ WriteCont
    \/ Analyse \/ Decode

Spec == Init /\ [][Next]_vars

\* --------------------------------------- analyseCont on a damaged CONT file
\* word index at which element e of file_structure begins (its prenul bytes
\* included) in the assembled buffer
ElementStart(fstruct, e) == Len(AssembleRange(fstruct, 1, e - 1).data) \div 2

\* Positions of the records in the buffer, by the place of their descriptors
\* in file_structure: the tag word follows the element's prenul word, the
\* length word has no prenul, a name begins with its prenul word.
DatestampTagAt(fstruct) == ElementStart(fstruct, 34) + 1
DatestampEndAt(fstruct) == ElementStart(fstruct, 36)
VideoTagAt(fstruct)     == ElementStart(fstruct, 36) + 1
VideoLenAt(fstruct)     == ElementStart(fstruct, 42)
ThumbTagAt(fstruct)     == ElementStart(fstruct, 44) + 1
XmlTagAt(fstruct)       == ElementStart(fstruct, 49) + 1
XmlLenAt(fstruct)       == ElementStart(fstruct, 51)
TerminatorAt(fstruct)   == ElementStart(fstruct, 53)

\* word index at which the first timestamp record (its leading zero word
\* included) begins
TimestampsAt(fstruct) == ElementStart(fstruct, 4)

\* the file as it is on disk: the first `at` words of the buffer
\* ("truncate"), or the buffer with word `at` set to v ("patch")
Damaged(bytes, dmg) ==
    CASE dmg.kind = "truncate" -> SubSeq(bytes, 1, 2 * dmg.at)
      [] dmg.kind = "patch"    ->
            [bytes EXCEPT ![2 * dmg.at + 1] = dmg.v % 256,
                          ![2 * dmg.at + 2] = dmg.v \div 256]
      [] OTHER                 -> bytes

Truncate(at) == [kind |-> "truncate", at |-> at, v |-> 0]
Patch(at, v) == [kind |-> "patch", at |-> at, v |-> v]

\* the words between the 7-word magic tag and the first timestamp record
PreambleWords == 7..36

\* Cuts in the header (before, inside and after the words the detector
\* reads) and at every word of the tagged-record sequence; patches of a tag
\* word to an unknown tag, of a length word to its extremes, of the high
\* word of the video record's FILETIME to its greatest value, and of a
\* preamble word to zero or to the year of BaseTimes.
Damages(fstruct) ==
    { NoDamage }
    \cup { Truncate(at) : at \in { 0, 7, 30, 61, 62, 69, 100, 200 } }
    \cup { Truncate(at) : at \in DatestampTagAt(fstruct)..TerminatorAt(fstruct) }
    \cup { Patch(at, 7) : at \in { DatestampTagAt(fstruct), VideoTagAt(fstruct),
                                   ThumbTagAt(fstruct), XmlTagAt(fstruct) } }
    \cup { Patch(at, v) : at \in { VideoLenAt(fstruct), XmlLenAt(fstruct) },
                          v \in { 0, 1, 65535 } }
    \cup { Patch(VideoLenAt(fstruct) - 1, 65535) }
    \cup { Patch(at, v) : at \in PreambleWords, v \in { 0, 2019 } }

BaseInput == MakeInput(BaseName, BaseTimes, BaseHost, BaseSize, FALSE)

\* buildMetadata has run for BaseInput; the CONT file on disk is damaged
InitDecode ==
    /\ input = BaseInput
    /\ params = Params(input)
    /\ file_structure = FileStructure(input, params)
    /\ k = Len(file_structure) + 1
    /\ data = AssembleAll(file_structure).data
    /\ damage \in Damages(file_structure)
    /\ disk = [tmb  |-> TRUE,
               pmpd |-> << [bias     |-> PmpdBias(params.tz_offset),
                            datetime |-> PmpdDateTime(params.record_dt)] >>,
               cont |-> << Damaged(data, damage) >>]
    /\ pc = "built"
    /\ DecoderIdle
    /\ err = "none"

NextDecode == Analyse \/ Decode

SpecDecode == InitDecode /\ [][NextDecode]_vars

\* analyseCont runs to its end: weak fairness of NextDecode, written with
\* the state predicate that ENABLED <<NextDecode>>_vars equals here (a step
\* can be taken exactly until printCont has returned or raised)
SpecDecodeFair ==
    SpecDecode /\ ([]<>(pc \in { "decoded", "crashed" }) \/ []<><<NextDecode>>_vars)

\* ------------------------------------------------- the assembler on fields
\* Field descriptors with a declared length: the brand and device fields of
\* file_structure, and 0..MaxField characters 'a' packed as bytes or as
\* 16-bit words with a declared length of 1..MaxField bytes.
Contents == { [j \in 1..l |-> 97] : l \in 0..MaxField }

Descriptors ==
    { Str(BrandLiteral, "H", 0, 256), Str(DeviceLiteral, "H", 0, 254) }
    \cup { Str(chars, fmt, 0, length) :
             chars \in Contents, fmt \in { "B", "H" }, length \in 1..MaxField }

\* the assembler loop over a raw field followed by one declared-length field
InitAsm ==
    /\ input = BaseInput
    /\ params = Params(input)
    /\ file_structure \in { << Raw(<< 1, 2 >>, 0), d >> : d \in Descriptors }
    /\ k = 1 /\ data = << >>
    /\ damage = NoDamage
    /\ disk = [tmb  |-> TRUE,
               pmpd |-> << [bias     |-> PmpdBias(params.tz_offset),
                            datetime |-> PmpdDateTime(params.record_dt)] >>,
               cont |-> << >>]
    /\ pc = "assemble"
    /\ DecoderIdle
    /\ err = "none"

NextAsm == AssembleNext \/ AssembleDone \/ WriteCont

SpecAsm == InitAsm /\ [][NextAsm]_vars

\* ------------------------------------------------ the FILETIME conversions
\* the whole-second Unix times converted
Times == { j * TimeStride : j \in 0..MaxTimeStep }

InitFiletime ==
    /\ input \in { MakeInput(BaseName, << t, t >>, << 0, 0 >>, BaseSize, FALSE) :
                     t \in Times }
    /\ damage = NoDamage
    /\ pc = "filetime"
    /\ disk = [tmb |-> FALSE, pmpd |-> << >>, cont |-> << >>]
    /\ params = << >> /\ file_structure = << >>
    /\ k = 0 /\ data = << >>
    /\ DecoderIdle
    /\ err = "none"

\* struct.pack('<Q', makeWindowsFiletime(m2ts_creation_date))
MakeFiletime ==
    /\ pc = "filetime"
    /\ data' = Pack("Q", makeWindowsFiletime(input.ctime)).bytes
    /\ pc' = "packed"
    /\ UNCHANGED << input, damage, disk, params, file_structure, k, decVars, err >>

\* filetimeToTimestamp on the four words
ReadFiletime ==
    /\ pc = "packed"
    /\ words' = ToWords(data)
    /\ out' = << [k |-> "Creation Date", v |-> filetimeToTimestamp(ToWords(data), 0)] >>
    /\ pc' = "converted"
    /\ UNCHANGED << input, damage, disk, encVars, caller, unknown_fields, n, found,
                    i, landed, hi, err >>

NextFiletime == MakeFiletime \/ ReadFiletime

SpecFiletime == InitFiletime /\ [][NextFiletime]_vars

\* ================================================================= claims
\* printCont has ended, by returning or by an exception
DecoderEnded == caller # "none" /\ pc \in { "decoded", "crashed" }

\* the title line of the video record is line j of the output
VideoTitleAt(j) == j \in 1..Len(out) /\ out[j].k = "Video File"

Reported(label, v) == \E j \in 1..Len(out) : out[j] = [k |-> label, v |-> v]

\* C1: when the decoder has ended on the encoder's output (known fields
\* printed), it has reported the header file size and the video record's
\* file size equal to the source file's size, and the audio bitrate, bit
\* depth, channel count and frequency equal to the encoder's parameters.
C1_NumericRoundTrip ==
    (DecoderEnded /\ ~unknown_fields) =>
        /\ Len(out) >= 6
        /\ out[6] = [k |-> "File Size", v |-> input.file_size]
        /\ \E j \in 1..(Len(out) - 1) :
              /\ VideoTitleAt(j)
              /\ out[j + 1] = [k |-> "File Size", v |-> input.file_size]
        /\ Reported("Bitrate", params.audio_bitrate)
        /\ Reported("Bitdepth", params.audio_bitdepth)
        /\ Reported("Channels", params.audio_channels)
        /\ Reported("Frequency", params.audio_frequency)

\* C2: the file name the decoder prints for the video record of the
\* encoder's output is the source file name, character for character.
C2_VideoNameRoundTrip ==
    ~unknown_fields =>
        \A j \in 1..Len(out) :
            VideoTitleAt(j) =>
                /\ j + 3 <= Len(out)
                /\ out[j + 3] = [k |-> "File Name", v |-> input.fname]

\* a name of the greatest length, beginning with a line break, was decoded
C2_Witness ==
    /\ pc = "decoded" /\ ~unknown_fields
    /\ Len(input.fname) = MaxStem + 2 /\ input.fname[1] = 10
    /\ \E j \in 1..Len(out) : VideoTitleAt(j) /\ out[j + 3].v = input.fname

\* the words under the cursor at the start of each iteration of the scan
LandedTags == [j \in 1..Len(landed) |-> W(words, landed[j])]

\* C3: on every encoder output the decoder returns, its scan having started
\* on the datestamp tag word, landed on the tag words 22, 1, 2 and 4 in turn
\* and stepped over the terminator word to leave the cursor at the length
\* of the word stream, without subscripting at or beyond that length.
C3_TagScan ==
    DecoderEnded =>
        /\ pc = "decoded"
        /\ LandedTags = << TagDatestamp, TagVideo, TagThumbnail, TagXml >>
        /\ landed[1] = DatestampTagAt(file_structure)
        /\ i = Len(words) /\ W(words, i - 1) = 0
        /\ hi < Len(words)

\* lengths in words of a stream cut in the middle of a record: after the
\* tag word and before the zero that ends the datestamp, or before the last
\* name character of a file record
MidRecordCuts(fstruct) ==
    ((DatestampTagAt(fstruct) + 1)..DatestampEndAt(fstruct))
    \cup ((VideoTagAt(fstruct) + 1)..(ThumbTagAt(fstruct) - 2))
    \cup ((ThumbTagAt(fstruct) + 1)..(XmlTagAt(fstruct) - 2))
    \cup ((XmlTagAt(fstruct) + 1)..(TerminatorAt(fstruct) - 1))

\* C4: decoding a stream cut in the middle of a record ends in an error
\* (Python's IndexError being the truncation error), never by returning.
C4_TruncatedFails ==
    (DecoderEnded /\ damage.kind = "truncate"
                  /\ damage.at \in MidRecordCuts(file_structure)) =>
        (pc = "crashed" /\ err = "IndexError")

\* C5: when the detection loop has ended without a candidate passing the
\* test, decoding has failed with HeaderNotFound.
C5_HeaderNotFound ==
    (caller # "none" /\ pc \in { "header", "scan", "decoded", "crashed" } /\ ~found) =>
        (pc = "crashed" /\ err = "HeaderNotFound")

\* C6: a stream that differs from the encoder's output in one word of the
\* preamble only is given the same header offset as the encoder's output.
C6_PreambleIndependent ==
    (pc = "header" /\ damage.kind = "patch" /\ damage.at \in PreambleWords) =>
        n = DetectHeaderLength(ToWords(data)).n

\* days from 1601-01-01 to 1970-01-01
DaysTo1970 == 134774

\* b is a multiple of 10^7 and b / 10^7 seconds are days whole days and
\* seconds seconds
IsFiletimeOf(b, days, seconds) ==
    /\ BigDivMod(b, 10000).r = 0
    /\ BigDivMod(BigDivMod(b, 10000).q, 1000).r = 0
    /\ BigDivMod(BigDivMod(BigDivMod(b, 10000).q, 1000).q, SecPerDay)
          = [q |-> BigOfInt(days), r |-> seconds]

\* C7: the FILETIME made for the whole-second Unix time t is
\* 116444736000000000 + t * 10^7 (for t = 0 the eight bytes of
\* 116444736000000000), and filetimeToTimestamp of its four 16-bit words is
\* the instant t counted from 1601-01-01, without a fraction of a second.
C7_FiletimeRoundTrip ==
    /\ pc \in { "packed", "converted" } =>
          /\ Len(data) = 8
          /\ IsFiletimeOf(data, DaysTo1970 + input.ctime \div SecPerDay,
                          input.ctime % SecPerDay)
          /\ input.ctime = 0 => data = << 0, 128, 62, 213, 222, 177, 157, 1 >>
    /\ pc = "converted" =>
          out[1].v = [ok |-> TRUE,
                      dt |-> [days         |-> DaysTo1970 + input.ctime \div SecPerDay,
                              seconds      |-> input.ctime % SecPerDay,
                              microseconds |-> 0]]

\* a time after 2001-09-09 that is not a whole number of days was converted
C7_Witness ==
    /\ pc = "converted"
    /\ input.ctime >= 1000000000 /\ input.ctime % SecPerDay # 0
    /\ out[1].v.dt.seconds = input.ctime % SecPerDay

BrandLine(j)  == j \in 1..Len(out) /\ out[j].k = "Brand"
DeviceLine(j) == j \in 1..Len(out) /\ out[j].k = "Device"

\* C9 as the specification states it: the brand and device strings printed
\* are the encoder's literals.
C9_DeviceStringsAreLiterals ==
    \A j \in 1..Len(out) :
        /\ BrandLine(j) => out[j].v = BrandLiteral
        /\ DeviceLine(j) => out[j].v = DeviceLiteral

\* the string with every NUL replaced by a line break, and a line break
\* after it
NulsAsBreaks(str) == [c \in 1..Len(str) |-> IF str[c] = 0 THEN 10 ELSE str[c]] \o << 10 >>

\* C9: the brand string printed is "Panasonic" followed by one line break,
\* and the device string printed is the encoder's device literal with each
\* NUL replaced by a line break, followed by one line break.
C9_DeviceStringsPrinted ==
    \A j \in 1..Len(out) :
        /\ BrandLine(j) => out[j].v = BrandLiteral \o << 10 >>
        /\ DeviceLine(j) => out[j].v = NulsAsBreaks(DeviceLiteral)

\* the decoder returned after printing both strings
C9_Witness ==
    /\ pc = "decoded"
    /\ \E j \in 1..Len(out) : BrandLine(j) /\ DeviceLine(j + 1)

\* C10: the bias written to the PMPD file is the UTC offset of the host in
\* whole minutes, with its sign.
C10_BiasIsOffset == disk.pmpd # << >> => disk.pmpd[1].bias = input.tz

\* C11: on every buffer the encoder produced, the header detection leaves
\* n at the word index where the encoder placed the first timestamp record
\* (37).
C11_DetectsEncoderOffset ==
    (caller # "none" /\ pc # "detect" /\ damage = NoDamage) =>
        /\ n = TimestampsAt(file_structure)
        /\ n = LastCandidate

\* the offsets in 29..37 at which the words of the stream satisfy the test
Matches(ws) ==
    { c \in 29..37 :
        /\ c + 24 < Len(ws)
        /\ ws[c + 1] = ws[c + 9] /\ ws[c + 9] = ws[c + 17] /\ ws[c + 17] = ws[c + 25]
        /\ ws[c + 2] = ws[c + 10] }

\* C12: the offset the header detection leaves in n is never outside
\* 29..37, and whenever some offset in 29..37 satisfies the test it is the
\* smallest such offset.
C12_FirstMatchWins ==
    (caller # "none" /\ pc # "detect") =>
        /\ n \in 29..37
        /\ Matches(words) # {} =>
              /\ n = SetMin(Matches(words))
              /\ found

\* the detection chose the first of several offsets that satisfy the test
C12_Witness ==
    /\ pc = "header" /\ found
    /\ Cardinality(Matches(words)) >= 2
    /\ n = SetMin(Matches(words)) /\ n < 37

\* the four timestamps the decoder printed: recorded, recorded UTC, last
\* modified, file created
TimestampsPrinted ==
    /\ Len(out) >= 5
    /\ out[2].k = "Recorded" /\ out[3].k = "Recorded (UTC)"
    /\ out[4].k = "Last Modified" /\ out[5].k = "File Created"

\* C13: whenever the detection loop ended by a candidate passing the test
\* and the decoder went on to read the four timestamps at that offset, the
\* four have the same year and the first two have the same month.
C13_TestComparesYearAndMonth ==
    (found /\ TimestampsPrinted) =>
        /\ out[2].v.year = out[3].v.year
        /\ out[3].v.year = out[4].v.year
        /\ out[4].v.year = out[5].v.year
        /\ out[2].v.month = out[3].v.month

\* an iteration of the scan on a video record completes
VideoIteration == pc = "scan" /\ i < Len(words) /\ W(words, i) = TagVideo /\ pc' = "scan"

\* C14 as the specification states it: the length word of a video record
\* is the word right after the 4 words that follow the file size (i+14),
\* the name is the length/2 words after it and the next tag is looked for
\* at the word right after the name.
C14_VideoFramingAsStated ==
    [][VideoIteration =>
          /\ i' = i + 15 + W(words, i + 14) \div 2
          /\ ~unknown_fields =>
                out'[Len(out')] =
                    [k |-> "File Name",
                     v |-> extractChars(Slice(words, i + 15,
                                              i + 15 + W(words, i + 14) \div 2))]
      ]_vars

\* C14: a video record whose tag is at i has its file size in words i+8
\* and i+9 (low word first), two more words, its FILETIME in words
\* i+12..i+15 and its length word at i+16; the decoder takes the name from
\* the length/2 words that begin at i+17 and looks for the next tag one
\* word past the end of the name, at i+18+length/2.  In the encoder's
\* output these are the places of the video record's tag, length word and
\* of the thumbnail record's tag.
C14_VideoFraming ==
    [][VideoIteration =>
          /\ i' = i + 18 + W(words, i + 16) \div 2
          /\ ~unknown_fields =>
                out' = out \o
                    << [k |-> "Video File", v |-> << >>],
                       [k |-> "File Size", v |-> U32(W(words, i + 8), W(words, i + 9))],
                       [k |-> "Creation Date", v |-> filetimeToTimestamp(words, i + 12).dt],
                       [k |-> "File Name",
                        v |-> extractChars(Slice(words, i + 17,
                                                 i + 17 + W(words, i + 16) \div 2))] >>
          /\ damage = NoDamage =>
                /\ i = VideoTagAt(file_structure)
                /\ i + 16 = VideoLenAt(file_structure)
                /\ i' = ThumbTagAt(file_structure)
      ]_vars

\* the iteration on the video record completed and printed the name
C14_Witness ==
    /\ pc = "scan" /\ ~unknown_fields /\ landed # << >>
    /\ W(words, landed[Len(landed)]) = TagVideo
    /\ i = landed[Len(landed)] + 18 + W(words, landed[Len(landed)] + 16) \div 2
    /\ out[Len(out)].k = "File Name"

\* C15: an iteration of the scan whose word under the cursor is none of 1,
\* 2, 4 and 22 prints no line, requests no index other than the cursor's,
\* raises nothing and moves the cursor forward by exactly one word.
C15_UnknownTagSkipped ==
    [][(pc = "scan" /\ i < Len(words) /\ W(words, i) \notin { 1, 2, 4, 22 }) =>
          /\ i' = i + 1
          /\ out' = out
          /\ hi' = Max(hi, i)
          /\ landed' = Append(landed, i)
          /\ pc' = "scan" /\ err' = err
      ]_vars

\* the scan stepped over a tag word that had been overwritten with 7
C15_Witness ==
    /\ pc = "scan" /\ landed # << >>
    /\ damage.kind = "patch" /\ damage.at = landed[Len(landed)]
    /\ W(words, landed[Len(landed)]) = 7
    /\ i = landed[Len(landed)] + 1

\* the cursor values at which the iterations began grow strictly, and the
\* cursor is beyond the last of them while the scan goes on
CursorGrows ==
    /\ \A j \in 1..(Len(landed) - 1) : landed[j] < landed[j + 1]
    /\ (pc \in { "scan", "decoded" } /\ landed # << >>) => i > landed[Len(landed)]

\* the iterations made do not outnumber the words after the device block
IterationsBounded == Len(landed) <= Max(0, Len(words) - ScanStart(n))

\* C16 as the specification states it: every completed iteration leaves
\* the cursor greater than it was, the iterations do not outnumber the
\* words after the device block, and the scan ends by the cursor reaching
\* the stream length or by an index error.
C16_EndsByLengthOrIndexError ==
    /\ CursorGrows
    /\ IterationsBounded
    /\ pc = "decoded" => i >= Len(words)
    /\ (pc = "crashed" /\ landed # << >>) => err = "IndexError"

\* C16: every completed iteration leaves the cursor greater than it was,
\* the iterations do not outnumber the words after the device block, and
\* printCont ends: by the cursor reaching the stream length, or in the scan
\* by an IndexError or by the OverflowError of a FILETIME beyond the year
\* 9999.
C16_ScanProgress ==
    /\ [](/\ CursorGrows
          /\ IterationsBounded
          /\ pc = "decoded" => i >= Len(words)
          /\ (pc = "crashed" /\ landed # << >>) =>
                err \in { "IndexError", "OverflowError" })
    /\ <>(pc \in { "decoded", "crashed" })

\* the scan returned after an iteration on a length word of 65535 and took
\* fewer iterations than there are words after the device block
C16_Witness ==
    /\ pc = "decoded"
    /\ damage.kind = "patch" /\ damage.v = 65535
    /\ Len(landed) >= 2 /\ Len(landed) < Len(words) - ScanStart(n)
    /\ i > Len(words)

\* C17: the thumbnail file exists before the PMPD file is written, both
\* exist before file_structure is built and the buffer assembled, the CONT
\* file holds the buffer made of every element of file_structure, and when
\* packing a field has failed there is no CONT file while both sidecar
\* files exist.
C17_FileOrder ==
    /\ pc = "pmpd" => (disk.tmb /\ disk.pmpd = << >>)
    /\ disk.pmpd # << >> => disk.tmb
    /\ pc = "structure" => (disk.pmpd # << >> /\ file_structure = << >> /\ data = << >>)
    /\ file_structure # << >> => disk.pmpd # << >>
    /\ pc \in { "start", "thumb", "pmpd", "structure", "assemble", "write" } =>
          disk.cont = << >>
    /\ disk.cont # << >> =>
          /\ k = Len(file_structure) + 1
          /\ disk.cont = << data >>
          /\ data = AssembleAll(file_structure).data
    /\ err = "struct.error" =>
          /\ disk.cont = << >>
          /\ disk.tmb /\ disk.pmpd # << >>

\* packing the size of a file of 2^32 bytes failed after both sidecar files
\* were written
C17_Witness ==
    /\ pc = "crashed" /\ err = "struct.error"
    /\ input.file_size = << 0, 0, 0, 0, 1 >>
    /\ disk.tmb /\ disk.pmpd # << >> /\ disk.cont = << >>
    /\ k <= Len(file_structure)

==========================================================================
